---- MODULE Spec2Model ----
(***************************************************************************)
(* AWSServiceBroker (sageworks/aws_service_broker/aws_service_broker.py):  *)
(* a process-wide metadata cache keyed by ServiceCategory, refreshed       *)
(* synchronously when empty or forced and by a background Thread when the  *)
(* freshness flag has expired.  Every Python statement that touches shared *)
(* state is one atomic step; threads interleave between statements.        *)
(***************************************************************************)
EXTENDS Integers, Sequences, FiniteSets, TLC

\* ------------------------------------------------------------------ bounds
NumCategories == 2      \* how many of the seven ServiceCategory members are modelled
NumCallers == 2         \* threads that call the broker's public methods
MaxThreads == 2         \* background refresh Threads ever appended to open_threads
MaxPulls == 4           \* successful Connector pulls, over all categories
MaxCalls == 4           \* calls of the broker's public methods, over all callers
MaxConcurrentCalls == 3 \* ... when several callers call concurrently
MaxRows == 5            \* rows of a DataFrame handed to EndpointCore.predict
ChunkSize == 4          \* rows per chunk in predict (500 in the source, scaled down)

\* ------------------------------------------------------------- data model
\* class ServiceCategory(Enum), in declaration order
CategoryOrder ==
    <<"INCOMING_DATA_S3", "DATA_SOURCES_S3", "FEATURE_SETS_S3", "DATA_CATALOG",
      "FEATURE_STORE", "MODELS", "ENDPOINTS">>

ServiceCategory == {CategoryOrder[i] : i \in 1..NumCategories}

\* what Cache.get answers for a key that is absent
None == -1

\* self.model_data = {} of a Connector that has never refreshed
InitialData == 0

\* A Snapshot is identified by the time (tick) at which AWS served its pull.
Snapshots == 1..MaxPulls

Callers == 1..NumCallers
Workers == (NumCallers + 1)..(NumCallers + MaxThreads)
Threads == Callers \cup Workers

\* the empty dict
EmptyDict == [c \in {} |-> None]

\* d[k] = v on a dict
DictSet(d, k, v) == [j \in DOMAIN d \cup {k} |-> IF j = k THEN v ELSE d[j]]

VARIABLES
    meta_cache,     \* cls.meta_cache: category -> Snapshot or None
    fresh_cache,    \* cls.fresh_cache: category -> flag present?
    conn_data,      \* connection_map[category]'s internal data (model_data, ...)
    pulls,          \* per category, the tick of the latest pull served by AWS
    open_threads,   \* cls.open_threads
    pc,             \* per thread, the statement it is about to execute
    op,             \* per caller, the public method it is in
    cat,            \* per thread, the category argument
    force,          \* per caller, the force_fresh argument
    meta_data,      \* per caller, the local meta_data of get_metadata
    val,            \* per thread, the value in flight inside refresh_aws_data
    ret,            \* per caller, the value get_metadata returned
    thread,         \* per caller, the local thread of get_metadata (0: none)
    all_idx,        \* per caller, get_all_metadata's position in ServiceCategory
    all_result,     \* per caller, the dict get_all_metadata is building
    wait_idx,       \* per caller, wait_for_refreshes' position in open_threads
    conn_partial,   \* per category, the Connector's data is assigned but not yet enriched
    val_partial,    \* per thread, the value in flight was read while not yet enriched
    meta_partial,   \* per category, the stored Snapshot was stored while not yet enriched
    ret_partial,    \* per caller, the value get_metadata returned was such a Snapshot
    \* history variables (read by the properties only)
    nsync,          \* per caller, Connector invocations on this thread in this call
    nlaunch,        \* per caller, Threads started by this call
    stored_by,      \* per caller, categories this call stored a Snapshot for
    visited,        \* per caller, categories get_all_metadata called get_metadata for
    floor,          \* per caller, the Snapshot last returned when this call began
    lastRet,        \* per category, the Snapshot the latest returned call returned
    overlapped,     \* per category, two refreshes were ever in progress at once
    lastWriter,     \* per category, the thread whose store executed last (0: none)
    storedSince,    \* per category, a refresh has stored since the latest return
    launched,       \* per category, line 144 ran since the flag last expired
    own_pull,       \* per caller, the tick its own Connector call pulled in this call
    track,          \* per caller, Scenario C bookkeeping
    wait_len0,      \* per caller, Len(open_threads) when wait_for_refreshes began
    calls,          \* public-method calls made so far (bounds the run)
    \* EndpointCore (core/artifacts/endpoint_core.py)
    endpoint_return_columns,  \* self.endpoint_return_columns ({}: None)
    eval_df,        \* predict's argument: per row, how the endpoint reacts to it
    eval_columns,   \* the columns of eval_df
    index,          \* predict's loop variable
    feature_df,     \* the chunk predict handed to _endpoint_error_handling last
    partial_df,     \* what that call returned
    df_list,        \* predict's df_list
    combined_df,    \* predict's combined_df
    epc,            \* where predict is
    \* history variables of EndpointCore
    columns_before, \* endpoint_return_columns when the last chunk was handed over
    chunks,         \* the chunks handed over so far in this predict call
    remote_calls,   \* the batches sent to the endpoint during the last chunk
    succeeded,      \* a remote call on this object has succeeded
    succeeded_before \* ... had succeeded when the last chunk was handed over

shared == <<meta_cache, fresh_cache, conn_data, pulls, open_threads>>
locals == <<op, cat, force, meta_data, val, ret, thread, all_idx, all_result, wait_idx>>
perCall == <<nsync, nlaunch, stored_by, visited, floor, track, wait_len0>>
perCategory == <<lastRet, overlapped, lastWriter, storedSince>>
windows == <<launched, own_pull>>
history == <<perCall, perCategory, calls, windows>>
partials == <<conn_partial, val_partial, meta_partial, ret_partial>>
broker == <<shared, pc, locals, history, partials>>
endpoint == <<endpoint_return_columns, eval_df, eval_columns, index, feature_df,
              partial_df, df_list, combined_df, epc, columns_before, chunks,
              remote_calls, succeeded, succeeded_before>>
vars == <<broker, endpoint>>

NoTrack == [w |-> 0, stage |-> 0]

\* EndpointCore.__init__, before any call of predict
InitEndpoint ==
    /\ endpoint_return_columns = {}
    /\ eval_df = <<>>
    /\ eval_columns = {}
    /\ index = 0
    /\ feature_df = <<>>
    /\ partial_df = <<>>
    /\ df_list = <<>>
    /\ combined_df = <<>>
    /\ epc = "idle"
    /\ columns_before = {}
    /\ chunks = <<>>
    /\ remote_calls = <<>>
    /\ succeeded = FALSE
    /\ succeeded_before = FALSE

Init ==
    /\ InitEndpoint
    /\ meta_cache = [c \in ServiceCategory |-> None]
    /\ fresh_cache = [c \in ServiceCategory |-> FALSE]
    /\ conn_data = [c \in ServiceCategory |-> InitialData]
    /\ pulls = [c \in ServiceCategory |-> 0]
    /\ open_threads = <<>>
    /\ pc = [x \in Threads |-> IF x \in Callers THEN "idle" ELSE "unborn"]
    /\ op = [t \in Callers |-> "none"]
    /\ cat = [x \in Threads |-> CategoryOrder[1]]
    /\ force = [t \in Callers |-> FALSE]
    /\ meta_data = [t \in Callers |-> None]
    /\ val = [x \in Threads |-> InitialData]
    /\ ret = [t \in Callers |-> None]
    /\ thread = [t \in Callers |-> 0]
    /\ all_idx = [t \in Callers |-> 0]
    /\ all_result = [t \in Callers |-> EmptyDict]
    /\ wait_idx = [t \in Callers |-> 0]
    /\ nsync = [t \in Callers |-> 0]
    /\ nlaunch = [t \in Callers |-> 0]
    /\ stored_by = [t \in Callers |-> {}]
    /\ visited = [t \in Callers |-> <<>>]
    /\ floor = [t \in Callers |-> None]
    /\ lastRet = [c \in ServiceCategory |-> None]
    /\ overlapped = [c \in ServiceCategory |-> FALSE]
    /\ lastWriter = [c \in ServiceCategory |-> 0]
    /\ storedSince = [c \in ServiceCategory |-> FALSE]
    /\ launched = [c \in ServiceCategory |-> FALSE]
    /\ own_pull = [t \in Callers |-> None]
    /\ track = [t \in Callers |-> NoTrack]
    /\ wait_len0 = [t \in Callers |-> 0]
    /\ calls = 0
    /\ conn_partial = [c \in ServiceCategory |-> FALSE]
    /\ val_partial = [x \in Threads |-> FALSE]
    /\ meta_partial = [c \in ServiceCategory |-> FALSE]
    /\ ret_partial = [t \in Callers |-> FALSE]

\* ---------------------------------------------------------------- helpers
IsCaller(x) == x \in Callers

RefreshSteps == {"L112_pull", "L112_assign", "L112_enrich", "L113_read", "L113_set", "L114"}

\* thread x is inside refresh_aws_data
InRefresh(x) == pc[x] \in RefreshSteps

\* history: thread x enters refresh_aws_data(c) while another thread is inside it
MarkOverlap(x, c) ==
    overlapped' = [overlapped EXCEPT ![c] =
        @ \/ (\E y \in Threads \ {x} : InRefresh(y) /\ cat[y] = c)]

NeedsBlockingRefresh_Inverted(m, f) == m = None \/ ~f

NeedsBlockingRefresh_IgnoreForce(m, f) == m = None

\* line 136: if meta_data is None or force_fresh
NeedsBlockingRefresh(m, f) == m = None \/ f

IsStale_Inverted(c) == fresh_cache[c]

\* line 142: if cls.fresh_cache.get(category) is None
IsStale(c) == ~fresh_cache[c]

Finished_NoWait(w) == pc[w] # "created"

\* Thread.join returns once the thread's run() has ended (normally or by raising)
Finished(w) == pc[w] \in {"done", "failed"}

\* where refresh_aws_data returns to: line 139 in a caller, the end of run() in a Thread
AfterRefresh(x) == IF IsCaller(x) THEN "L139" ELSE "done"

AfterRaise_Swallowed(x) == IF IsCaller(x) THEN "L139" ELSE "failed"

\* where an exception of Connector.refresh() ends up: it propagates out of
\* get_metadata (and get_all_metadata) in a caller, and ends run() in a Thread
AfterRaise(x) == IF IsCaller(x) THEN "raised" ELSE "failed"

CanCall(t) == pc[t] \in {"idle", "returned", "raised"} /\ calls < MaxCalls

\* the locals and the per-call history of caller t at the start of a call
EnterCall(t, o, c, f) ==
    /\ op' = [op EXCEPT ![t] = o]
    /\ cat' = [cat EXCEPT ![t] = c]
    /\ force' = [force EXCEPT ![t] = f]
    /\ meta_data' = [meta_data EXCEPT ![t] = None]
    /\ val' = [val EXCEPT ![t] = InitialData]
    /\ ret' = [ret EXCEPT ![t] = None]
    /\ thread' = [thread EXCEPT ![t] = 0]
    /\ all_idx' = [all_idx EXCEPT ![t] = IF o = "all" THEN 1 ELSE 0]
    /\ all_result' = [all_result EXCEPT ![t] = EmptyDict]
    /\ wait_idx' = [wait_idx EXCEPT ![t] = IF o = "wait" THEN 1 ELSE 0]
    /\ nsync' = [nsync EXCEPT ![t] = 0]
    /\ nlaunch' = [nlaunch EXCEPT ![t] = 0]
    /\ stored_by' = [stored_by EXCEPT ![t] = {}]
    /\ visited' = [visited EXCEPT ![t] = IF o = "all" THEN <<c>> ELSE <<>>]
    /\ floor' = [floor EXCEPT ![t] = IF o = "wait" THEN None ELSE lastRet[c]]
    /\ wait_len0' = [wait_len0 EXCEPT ![t] = IF o = "wait" THEN Len(open_threads) ELSE 0]
    /\ calls' = calls + 1
    /\ val_partial' = [val_partial EXCEPT ![t] = FALSE]
    /\ ret_partial' = [ret_partial EXCEPT ![t] = FALSE]
    /\ own_pull' = [own_pull EXCEPT ![t] = None]
    /\ UNCHANGED <<conn_partial, meta_partial, launched, endpoint>>

\* ------------------------------------------------- the public entry points
\* a caller enters get_metadata(c, f)
CallGetMetadata(t, c, f) ==
    /\ CanCall(t)
    /\ pc' = [pc EXCEPT ![t] = "L133"]
    /\ EnterCall(t, "get", c, f)
    /\ track' = [track EXCEPT ![t] =
                    IF @.stage = 2 /\ cat[@.w] = c /\ ~f
                    THEN [@ EXCEPT !.stage = 3] ELSE NoTrack]
    /\ UNCHANGED <<shared, perCategory>>

\* a caller enters get_all_metadata(f): the comprehension of line 163 starts
\* at the first member of ServiceCategory
CallGetAllMetadata(t, f) ==
    /\ CanCall(t)
    /\ pc' = [pc EXCEPT ![t] = "L133"]
    /\ EnterCall(t, "all", CategoryOrder[1], f)
    /\ track' = [track EXCEPT ![t] = NoTrack]
    /\ UNCHANGED <<shared, perCategory>>

\* a caller enters wait_for_refreshes(): the for loop starts at open_threads[0]
CallWaitForRefreshes(t) ==
    /\ CanCall(t)
    /\ pc' = [pc EXCEPT ![t] = "L168"]
    /\ EnterCall(t, "wait", cat[t], FALSE)
    /\ track' = [track EXCEPT ![t] = IF @.stage = 1 THEN @ ELSE NoTrack]
    /\ UNCHANGED <<shared, perCategory>>

\* ----------------------------------------------------------- get_metadata
\* lines 133-136: meta_data = cls.meta_cache.get(category), then the branch
\* into the blocking refresh (138) or on to the staleness test (142)
GetMetadata_L133(t) ==
    /\ IsCaller(t) /\ pc[t] = "L133"
    /\ meta_data' = [meta_data EXCEPT ![t] = meta_cache[cat[t]]]
    /\ IF NeedsBlockingRefresh(meta_cache[cat[t]], force[t])
       THEN /\ pc' = [pc EXCEPT ![t] = "L112_pull"]
            /\ MarkOverlap(t, cat[t])
       ELSE /\ pc' = [pc EXCEPT ![t] = "L142"]
            /\ UNCHANGED overlapped
    /\ UNCHANGED <<shared, op, cat, force, val, ret, thread, all_idx, all_result,
                   wait_idx, perCall, lastRet, lastWriter, storedSince, calls, windows,
                   partials, endpoint>>

\* room for one more Thread within the bound, counting the callers that are
\* already past line 142 on their way to create one
ThreadBudget ==
    Len(open_threads) + Cardinality({u \in Callers : pc[u] \in {"L144", "L145"}}) < MaxThreads

\* line 142: is the freshness flag absent?
GetMetadata_L142(t) ==
    /\ IsCaller(t) /\ pc[t] = "L142"
    /\ IF IsStale(cat[t])
       THEN /\ ThreadBudget
            /\ pc' = [pc EXCEPT ![t] = "L144"]
       ELSE pc' = [pc EXCEPT ![t] = "L152"]
    /\ UNCHANGED <<shared, locals, history, partials, endpoint>>

\* line 144: cls.fresh_cache.set(category, True), before the Thread exists
GetMetadata_L144(t) ==
    /\ IsCaller(t) /\ pc[t] = "L144"
    /\ fresh_cache' = [fresh_cache EXCEPT ![cat[t]] = TRUE]
    /\ pc' = [pc EXCEPT ![t] = "L145"]
    /\ launched' = [launched EXCEPT ![cat[t]] = TRUE]
    /\ UNCHANGED <<meta_cache, conn_data, pulls, open_threads, locals, perCall,
                   perCategory, calls, own_pull, partials, endpoint>>

\* the Thread object that line 145 creates: the next unused one
NewThread == NumCallers + Len(open_threads) + 1

\* lines 145-146: thread = Thread(target=cls.refresh_aws_data, args=(category,))
\* and cls.open_threads.append(thread); the thread is not yet started
GetMetadata_L145(t) ==
    /\ IsCaller(t) /\ pc[t] = "L145"
    /\ NewThread \in Workers
    /\ thread' = [thread EXCEPT ![t] = NewThread]
    /\ open_threads' = Append(open_threads, NewThread)
    /\ pc' = [pc EXCEPT ![t] = "L147", ![NewThread] = "created"]
    /\ cat' = [cat EXCEPT ![NewThread] = cat[t]]
    /\ UNCHANGED <<meta_cache, fresh_cache, conn_data, pulls, op, force, meta_data,
                   val, ret, all_idx, all_result, wait_idx, history, partials, endpoint>>

\* line 147: thread.start(): the Thread enters refresh_aws_data(category)
GetMetadata_L147(t) ==
    /\ IsCaller(t) /\ pc[t] = "L147"
    /\ pc' = [pc EXCEPT ![t] = "L148", ![thread[t]] = "L112_pull"]
    /\ nlaunch' = [nlaunch EXCEPT ![t] = @ + 1]
    /\ MarkOverlap(thread[t], cat[t])
    /\ UNCHANGED <<shared, locals, nsync, stored_by, visited, floor, track, wait_len0,
                   lastRet, lastWriter, storedSince, calls, windows, partials, endpoint>>

ReturnValue_Local(t) == meta_data[t]

\* what a return statement of get_metadata hands back: cls.meta_cache.get(category)
ReturnValue(t) == meta_cache[cat[t]]

HasNext_OffByOne(i) == i < NumCategories - 1

\* line 163: `for _category in ServiceCategory` has a member after the i-th
HasNext(i) == i < NumCategories

\* `return cls.meta_cache.get(category)` (lines 139, 148, 152).  In get_metadata
\* the call is over; in get_all_metadata (line 163) the value becomes the entry
\* of the dict and the comprehension goes on to the next category, or returns.
Return(t) ==
    LET c == cat[t]
        v == ReturnValue(t)
        more == op[t] = "all" /\ HasNext(all_idx[t])
        next == CategoryOrder[all_idx[t] + 1]
    IN  /\ ret' = [ret EXCEPT ![t] = v]
        /\ lastRet' = [lastRet EXCEPT ![c] = v]
        /\ storedSince' = [storedSince EXCEPT ![c] = FALSE]
        /\ all_result' = [all_result EXCEPT ![t] =
                             IF op[t] = "all" THEN DictSet(@, c, v) ELSE @]
        /\ IF more
           THEN /\ pc' = [pc EXCEPT ![t] = "L133"]
                /\ all_idx' = [all_idx EXCEPT ![t] = @ + 1]
                /\ cat' = [cat EXCEPT ![t] = next]
                /\ meta_data' = [meta_data EXCEPT ![t] = None]
                /\ thread' = [thread EXCEPT ![t] = 0]
                /\ val' = [val EXCEPT ![t] = InitialData]
                /\ nsync' = [nsync EXCEPT ![t] = 0]
                /\ nlaunch' = [nlaunch EXCEPT ![t] = 0]
                /\ visited' = [visited EXCEPT ![t] = Append(@, next)]
                /\ floor' = [floor EXCEPT ![t] = IF next = c THEN v ELSE lastRet[next]]
           ELSE /\ pc' = [pc EXCEPT ![t] = "returned"]
                /\ UNCHANGED <<all_idx, cat, meta_data, thread, val, nsync, nlaunch,
                               visited, floor>>
        /\ track' = [track EXCEPT ![t] =
                        IF op[t] = "get" /\ @.stage = 3 THEN @
                        ELSE IF op[t] = "get" /\ thread[t] # 0
                             THEN [w |-> thread[t], stage |-> 1]
                             ELSE NoTrack]
        /\ ret_partial' = [ret_partial EXCEPT ![t] = meta_partial[c]]
        /\ own_pull' = [own_pull EXCEPT ![t] = None]
        /\ UNCHANGED <<shared, op, force, wait_idx, stored_by, wait_len0, overlapped,
                       lastWriter, calls, launched, conn_partial, val_partial,
                       meta_partial, endpoint>>

\* line 139: return after the blocking refresh
GetMetadata_L139(t) == IsCaller(t) /\ pc[t] = "L139" /\ Return(t)

\* line 148: return right after thread.start()
GetMetadata_L148(t) == IsCaller(t) /\ pc[t] = "L148" /\ Return(t)

\* line 152: return of the fresh path
GetMetadata_L152(t) == IsCaller(t) /\ pc[t] = "L152" /\ Return(t)

\* ------------------------------------------------------- refresh_aws_data
RECURSIVE PullsUpTo(_)
\* the successful pulls so far from the Connectors of the first i categories
PullsUpTo(i) == IF i = 0 THEN 0 ELSE pulls[CategoryOrder[i]] + PullsUpTo(i - 1)

Connector_First(x) == CategoryOrder[1]

\* line 112/113: cls.connection_map[category], the Connector thread x's
\* refresh_aws_data uses (a Connector is named by the category it is mapped to)
Connector(x) == cat[x]

\* history: a Connector invocation on a caller's own thread
CountSync(x) == nsync' = [t \in Callers |-> IF t = x THEN nsync[t] + 1 ELSE nsync[t]]

\* line 112, first half: Connector.refresh() calls AWS and the call succeeds;
\* the answer (the state of AWS now, tick pulls+1) is in the thread's hands
\* but not yet assigned to the Connector's data attribute
Refresh_Pull(x) ==
    /\ pc[x] = "L112_pull"
    /\ PullsUpTo(NumCategories) < MaxPulls
    /\ pulls' = [pulls EXCEPT ![Connector(x)] = @ + 1]
    /\ val' = [val EXCEPT ![x] = pulls[Connector(x)] + 1]
    /\ pc' = [pc EXCEPT ![x] = "L112_assign"]
    /\ CountSync(x)
    /\ own_pull' = [t \in Callers |-> IF t = x THEN pulls[Connector(x)] + 1 ELSE own_pull[t]]
    /\ UNCHANGED <<meta_cache, fresh_cache, conn_data, open_threads, op, cat, force,
                   meta_data, ret, thread, all_idx, all_result, wait_idx, nlaunch,
                   stored_by, visited, floor, track, wait_len0, perCategory, calls,
                   launched, partials, endpoint>>

\* line 112: the AWS call inside Connector.refresh() raises; nothing is stored
Refresh_Raise(x) ==
    /\ pc[x] = "L112_pull"
    /\ pc' = [pc EXCEPT ![x] = AfterRaise(x)]
    /\ CountSync(x)
    /\ UNCHANGED <<shared, locals, nlaunch, stored_by, visited, floor, track,
                   wait_len0, perCategory, calls, windows, partials, endpoint>>

\* line 112, second part: refresh_impl assigns the pulled data to the
\* Connector's attribute (self.model_data = {...}); the details that the loop
\* after it adds in place are still missing
Refresh_Assign(x) ==
    /\ pc[x] = "L112_assign"
    /\ conn_data' = [conn_data EXCEPT ![Connector(x)] = val[x]]
    /\ conn_partial' = [conn_partial EXCEPT ![Connector(x)] = TRUE]
    /\ pc' = [pc EXCEPT ![x] = "L112_enrich"]
    /\ UNCHANGED <<meta_cache, fresh_cache, pulls, open_threads, locals, history,
                   val_partial, meta_partial, ret_partial, endpoint>>

\* line 112, last part: refresh_impl's loop adds the remaining details, in
\* place, to whatever dict the Connector's attribute refers to now, and
\* refresh() returns
Refresh_Enrich(x) ==
    /\ pc[x] = "L112_enrich"
    /\ conn_partial' = [conn_partial EXCEPT ![Connector(x)] = FALSE]
    /\ pc' = [pc EXCEPT ![x] = "L113_read"]
    /\ UNCHANGED <<shared, locals, history, val_partial, meta_partial, ret_partial, endpoint>>

\* line 113, the argument: cls.connection_map[category].metadata() reads
\* whatever the shared Connector holds now
Refresh_Read(x) ==
    /\ pc[x] = "L113_read"
    /\ val' = [val EXCEPT ![x] = conn_data[Connector(x)]]
    /\ val_partial' = [val_partial EXCEPT ![x] = conn_partial[Connector(x)]]
    /\ pc' = [pc EXCEPT ![x] = "L113_set"]
    /\ UNCHANGED <<shared, op, cat, force, meta_data, ret, thread, all_idx,
                   all_result, wait_idx, history, conn_partial, meta_partial,
                   ret_partial, endpoint>>

StoredValue_RefreshResult(x) == None

StoredValue_BeforeRefresh(x) == InitialData

\* the value line 113 stores: what metadata() answered
StoredValue(x) == val[x]

\* line 113, the call: cls.meta_cache.set(category, <that value>)
Refresh_Set(x) ==
    /\ pc[x] = "L113_set"
    /\ meta_cache' = [meta_cache EXCEPT ![cat[x]] = StoredValue(x)]
    /\ pc' = [pc EXCEPT ![x] = "L114"]
    /\ lastWriter' = [lastWriter EXCEPT ![cat[x]] = x]
    /\ storedSince' = [storedSince EXCEPT ![cat[x]] = TRUE]
    /\ stored_by' = [t \in Callers |->
                        IF t = x THEN stored_by[t] \cup {cat[x]} ELSE stored_by[t]]
    /\ meta_partial' = [meta_partial EXCEPT ![cat[x]] = val_partial[x]]
    /\ UNCHANGED <<fresh_cache, conn_data, pulls, open_threads, locals, nsync,
                   nlaunch, visited, floor, track, wait_len0, lastRet, overlapped, calls,
                   windows, conn_partial, val_partial, ret_partial, endpoint>>

\* line 114: cls.fresh_cache.set(category, True); refresh_aws_data returns
Refresh_Flag(x) ==
    /\ pc[x] = "L114"
    /\ fresh_cache' = [fresh_cache EXCEPT ![cat[x]] = TRUE]
    /\ pc' = [pc EXCEPT ![x] = AfterRefresh(x)]
    /\ UNCHANGED <<meta_cache, conn_data, pulls, open_threads, locals, history, partials, endpoint>>

\* ----------------------------------------------------- wait_for_refreshes
\* lines 168-169: for thread in cls.open_threads: thread.join().  The list
\* iterator goes by index, so it also reaches Threads appended meanwhile.
\* join() of a Thread that was never started raises RuntimeError.
WaitForRefreshes_L168(t) ==
    /\ IsCaller(t) /\ pc[t] = "L168"
    /\ IF wait_idx[t] > Len(open_threads)
       THEN /\ pc' = [pc EXCEPT ![t] = "returned"]
            /\ track' = [track EXCEPT ![t] =
                            IF @.stage = 1 THEN [@ EXCEPT !.stage = 2] ELSE NoTrack]
            /\ UNCHANGED wait_idx
       ELSE IF pc[open_threads[wait_idx[t]]] = "created"
       THEN /\ pc' = [pc EXCEPT ![t] = "raised"]
            /\ track' = [track EXCEPT ![t] = NoTrack]
            /\ UNCHANGED wait_idx
       ELSE /\ Finished(open_threads[wait_idx[t]])
            /\ wait_idx' = [wait_idx EXCEPT ![t] = @ + 1]
            /\ UNCHANGED <<pc, track>>
    /\ UNCHANGED <<shared, op, cat, force, meta_data, val, ret, thread, all_idx,
                   all_result, nsync, nlaunch, stored_by, visited, floor, wait_len0,
                   perCategory, calls, windows, partials, endpoint>>

\* -------------------------------------------------------------- the store
\* Cache(expire=10): the freshness flag of a category disappears once its TTL
\* has elapsed
Expire(c) ==
    /\ fresh_cache[c]
    /\ fresh_cache' = [fresh_cache EXCEPT ![c] = FALSE]
    /\ launched' = [launched EXCEPT ![c] = FALSE]
    /\ UNCHANGED <<meta_cache, conn_data, pulls, open_threads, pc, locals, perCall,
                   perCategory, calls, own_pull, partials, endpoint>>

\* ---------------------------------------------------------- specifications
\* the statements of get_metadata, refresh_aws_data and wait_for_refreshes,
\* by any thread, and the expiry of flags
Step ==
    \/ \E t \in Callers : GetMetadata_L133(t)
    \/ \E t \in Callers : GetMetadata_L142(t)
    \/ \E t \in Callers : GetMetadata_L144(t)
    \/ \E t \in Callers : GetMetadata_L145(t)
    \/ \E t \in Callers : GetMetadata_L147(t)
    \/ \E t \in Callers : GetMetadata_L139(t)
    \/ \E t \in Callers : GetMetadata_L148(t)
    \/ \E t \in Callers : GetMetadata_L152(t)
    \/ \E x \in Threads : Refresh_Pull(x)
    \/ \E x \in Threads : Refresh_Raise(x)
    \/ \E x \in Threads : Refresh_Assign(x)
    \/ \E x \in Threads : Refresh_Enrich(x)
    \/ \E x \in Threads : Refresh_Read(x)
    \/ \E x \in Threads : Refresh_Set(x)
    \/ \E x \in Threads : Refresh_Flag(x)
    \/ \E t \in Callers : WaitForRefreshes_L168(t)
    \/ \E c \in ServiceCategory : Expire(c)

\* Concurrent callers: every caller thread may call get_metadata (forced or
\* not) and wait_for_refreshes at any time, all on one category, the first.
Next ==
    \/ \E t \in Callers, f \in BOOLEAN :
          calls < MaxConcurrentCalls /\ CallGetMetadata(t, CategoryOrder[1], f)
    \/ \E t \in Callers :
          calls < MaxConcurrentCalls /\ CallWaitForRefreshes(t)
    \/ Step

Spec == Init /\ [][Next]_vars

\* One caller (the main thread of the scripts and tests) over every category:
\* get_metadata, get_all_metadata and wait_for_refreshes, with the background
\* Threads its calls start.
MainThread == 1

NextFanOut ==
    \/ \E c \in ServiceCategory, f \in BOOLEAN : CallGetMetadata(MainThread, c, f)
    \/ \E f \in BOOLEAN : CallGetAllMetadata(MainThread, f)
    \/ CallWaitForRefreshes(MainThread)
    \/ Step

SpecFanOut == Init /\ [][NextFanOut]_vars

\* ------------------------------------------------------------ EndpointCore
\* How the remote endpoint reacts to a row: "good" rows are predicted; the
\* first row of a batch that is not good makes the call fail, a "bad" row with
\* a ClientError that is not a ModelError, a "fatal" row with a ModelError.
RowKinds == {"good", "bad", "fatal"}

\* the DataFrames predict may be given: up to MaxRows rows
DataFrames == UNION {[1..n -> RowKinds] : n \in 0..MaxRows}

\* the column sets eval_df may have (the features, and possibly more)
InputShapes == {{"id"}, {"id", "x"}}

\* the header of a successful reply: the input's columns and the prediction
\* ("Return the DataFrame with additional columns, prediction and any _proba")
ReplyColumns(cols) == cols \cup {"prediction"}

\* rows i..j of eval_df, by position (df[i:j] keeps the rows' identity)
Rows(i, j) == [k \in 1..(j - i + 1) |-> i + k - 1]

Contains(df, kind) == \E k \in DOMAIN df : eval_df[df[k]] = kind

\* predictor.predict(csv_buffer.getvalue()) on the batch df
Reply(df) ==
    IF \A k \in DOMAIN df : eval_df[df[k]] = "good" THEN "ok"
    ELSE LET first == CHOOSE k \in DOMAIN df :
                          /\ eval_df[df[k]] # "good"
                          /\ \A j \in 1..(k - 1) : eval_df[df[j]] = "good"
         IN  IF eval_df[df[first]] = "fatal" THEN "ModelError" ELSE "ClientError"

\* lines 241-247: a result row as returned by the endpoint
ResultRow(i) == [id |-> i, columns |-> ReplyColumns(eval_columns), nan |-> {}]

ErrorRow_KnownColumnsOnly(i, all_columns) ==
    [id |-> i, columns |-> all_columns, nan |-> all_columns \ eval_columns]

\* _error_df: one row of NaN in all_columns, then every column of the
\* incoming row set (or added) with its original value
ErrorRow(i, all_columns) ==
    [id |-> i, columns |-> all_columns \cup eval_columns,
     nan |-> all_columns \ eval_columns]

IsModelError_Never(reply) == FALSE

\* line 250: err.response["Error"]["Code"] == "ModelError"
IsModelError(reply) == reply = "ModelError"

Split_Uneven(n) == 1

\* line 267: split = int(num_rows / 2)
Split(n) == n \div 2

FirstHalf_OneShort(df, split) == SubSeq(df, 1, split - 1)

\* line 268: feature_df[0:split]
FirstHalf(df, split) == SubSeq(df, 1, split)

\* line 269: feature_df[split:num_rows]
SecondHalf(df, split) == SubSeq(df, split + 1, Len(df))

NoKnownShape_Always(cols) == TRUE

\* line 258: if not self.endpoint_return_columns
NoKnownShape(cols) == cols = {}

Stitch_Swapped(first_half, second_half) == second_half \o first_half

\* line 270: pd.concat([first_half, second_half], ignore_index=True)
Stitch(first_half, second_half) == first_half \o second_half

\* what a call of _endpoint_error_handling hands back
Outcome(rows, cols, err, log) == [rows |-> rows, cols |-> cols, err |-> err, log |-> log]

RECURSIVE EndpointErrorHandling(_, _)
\* _endpoint_error_handling(predictor, feature_df) with endpoint_return_columns
\* = cols on entry: the rows returned, endpoint_return_columns afterwards, the
\* exception raised ("none": returned normally) and the batches sent
EndpointErrorHandling(df, cols) ==
    LET reply == Reply(df)
        n == Len(df)
    IN  IF reply = "ok"
        THEN Outcome([k \in 1..n |-> ResultRow(df[k])], ReplyColumns(eval_columns),
                     "none", <<df>>)
        ELSE IF IsModelError(reply)
        THEN Outcome(<<>>, cols, reply, <<df>>)
        ELSE IF n = 1
        THEN IF NoKnownShape(cols)
             THEN Outcome(<<>>, cols, reply, <<df>>)
             ELSE Outcome(<<ErrorRow(df[1], cols)>>, cols, "none", <<df>>)
        ELSE LET split == Split(n)
                 first_half == EndpointErrorHandling(FirstHalf(df, split), cols)
             IN  IF first_half.err # "none"
                 THEN Outcome(<<>>, first_half.cols, first_half.err,
                              <<df>> \o first_half.log)
                 ELSE LET second_half ==
                              EndpointErrorHandling(SecondHalf(df, split),
                                                    first_half.cols)
                      IN  IF second_half.err # "none"
                          THEN Outcome(<<>>, second_half.cols, second_half.err,
                                       <<df>> \o first_half.log \o second_half.log)
                          ELSE Outcome(Stitch(first_half.rows, second_half.rows),
                                       second_half.cols, "none",
                                       <<df>> \o first_half.log \o second_half.log)

\* predict(eval_df) is called (the features are among eval_df's columns)
CallPredict(df, cols) ==
    /\ epc \in {"idle", "returned", "raised"}
    /\ eval_df' = df
    /\ eval_columns' = cols
    /\ index' = 0
    /\ df_list' = <<>>
    /\ combined_df' = <<>>
    /\ feature_df' = <<>>
    /\ partial_df' = <<>>
    /\ chunks' = <<>>
    /\ remote_calls' = <<>>
    /\ epc' = "L185"
    /\ UNCHANGED <<endpoint_return_columns, columns_before, succeeded,
                   succeeded_before, broker>>

ChunkEnd_DropsLast(i) == IF i + ChunkSize < Len(eval_df) THEN i + ChunkSize ELSE Len(eval_df) - 1

\* eval_df[index : index + 500]: the slice ends at the end of the DataFrame
ChunkEnd(i) == IF i + ChunkSize < Len(eval_df) THEN i + ChunkSize ELSE Len(eval_df)

\* lines 185-190: one pass of the loop, a chunk through _endpoint_error_handling
PredictChunk ==
    /\ epc = "L185"
    /\ index < Len(eval_df)
    /\ LET chunk == Rows(index + 1, ChunkEnd(index))
           out == EndpointErrorHandling(chunk, endpoint_return_columns)
       IN  /\ feature_df' = chunk
           /\ chunks' = Append(chunks, chunk)
           /\ columns_before' = endpoint_return_columns
           /\ endpoint_return_columns' = out.cols
           /\ remote_calls' = out.log
           /\ succeeded_before' = succeeded
           /\ succeeded' = (succeeded \/ \E k \in DOMAIN out.log : Reply(out.log[k]) = "ok")
           /\ IF out.err = "none"
              THEN /\ partial_df' = out.rows
                   /\ df_list' = Append(df_list, out.rows)
                   /\ index' = index + ChunkSize
                   /\ epc' = "L185"
              ELSE /\ epc' = "raised"
                   /\ UNCHANGED <<partial_df, df_list, index>>
    /\ UNCHANGED <<eval_df, eval_columns, combined_df, broker>>

RECURSIVE Concat(_)
\* pd.concat(df_list, ignore_index=True) of a non-empty list
Concat(list) == IF list = <<>> THEN <<>> ELSE Head(list) \o Concat(Tail(list))

CanConcat_Always(list) == TRUE

\* pd.concat raises ValueError("No objects to concatenate") on an empty list
CanConcat(list) == list # <<>>

\* lines 193-208: the loop is over; concatenate, convert the dtypes, return
PredictConcat ==
    /\ epc = "L185"
    /\ index >= Len(eval_df)
    /\ IF CanConcat(df_list)
       THEN /\ combined_df' = Concat(df_list)
            /\ epc' = "returned"
       ELSE /\ epc' = "raised"
            /\ UNCHANGED combined_df
    /\ UNCHANGED <<endpoint_return_columns, eval_df, eval_columns, index, feature_df,
                   partial_df, df_list, columns_before, chunks, remote_calls,
                   succeeded, succeeded_before, broker>>

\* An EndpointCore object on which predict is called again and again, with any
\* DataFrame of up to MaxRows rows.
NextEndpoint ==
    \/ \E df \in DataFrames, cols \in InputShapes : CallPredict(df, cols)
    \/ PredictChunk
    \/ PredictConcat

SpecEndpoint == Init /\ [][NextEndpoint]_vars

\* ------------------------------------------------------------- properties
Range(s) == {s[i] : i \in DOMAIN s}

\* caller t is in a get_metadata call (its own, or one made by get_all_metadata)
InGet(t) == op[t] \in {"get", "all"}

\* thread t takes a step of its own
Moves(t) == pc'[t] # pc[t]

\* get_metadata(category, force_fresh=False) called while a Snapshot is stored
\* never invokes the Connector on the calling thread; and once a get_metadata
\* call for the category has returned, the only calls that invoke the
\* Connector on the calling thread are the forced ones.
NoSynchronousInvocation ==
    \A t \in Callers :
        /\ (InGet(t) /\ ~force[t] /\ meta_data[t] # None)
              => (nsync[t] = 0 /\ pc[t] \notin RefreshSteps /\ pc[t] # "L139")
        /\ (InGet(t) /\ floor[t] # None /\ (nsync[t] > 0 \/ pc[t] \in RefreshSteps))
              => force[t]

\* C1 as stated: such a call never invokes the Connector on the calling thread
\* and returns before any refresh it triggers completes.
C1_ReturnsBeforeRefreshCompletes ==
    [][/\ NoSynchronousInvocation
       /\ \A t \in Callers :
             (InGet(t) /\ pc[t] = "L148" /\ Moves(t)) =>
                 pc[thread[t]] \notin {"done", "failed"}
      ]_vars

\* C1 amended: such a call never invokes the Connector on the calling thread
\* and returns without waiting for the refresh it triggers: once the Thread is
\* started the call reaches its return statement and returns in its next
\* step, whatever the Thread is doing (the refresh may be running or over).
C1_NoBlockingAfterWarmUp ==
    /\ NoSynchronousInvocation
    /\ \A t \in Callers :
          (InGet(t) /\ ~force[t] /\ meta_data[t] # None /\ pc[t] = "L148") =>
              /\ pc[thread[t]] \in RefreshSteps \cup {"done", "failed"}
              /\ ENABLED GetMetadata_L148(t)

\* C1's case: an unforced call on a stored Snapshot has returned while the
\* background refresh it started is still inside refresh_aws_data
C1_Witness ==
    \E t \in Callers :
        /\ op[t] = "get" /\ pc[t] = "returned" /\ ~force[t] /\ meta_data[t] # None
        /\ nsync[t] = 0 /\ thread[t] # 0 /\ pc[thread[t]] \in RefreshSteps

\* caller t is past line 136 of a get_metadata call that found no Snapshot or
\* was forced
OnBlockingCall(t) ==
    /\ op[t] = "get" /\ pc[t] \notin {"idle", "L133", "returned", "raised"}
    /\ (force[t] \/ meta_data[t] = None)

\* C2: a get_metadata call that finds no Snapshot stored, or is forced, invokes
\* the Connector exactly once on the calling thread and ends (returns or
\* raises) only after that invocation; on success it has stored the value the
\* Connector's metadata() answered, it sets the freshness flag, and it returns
\* the Snapshot that is stored.
C2_BlockingRefresh ==
    [][\A t \in Callers : (OnBlockingCall(t) /\ Moves(t)) =>
          /\ (pc'[t] \in {"returned", "raised"}) => (nsync'[t] = 1 /\ nlaunch'[t] = 0)
          /\ (pc'[t] = "raised") => (pc[t] = "L112_pull" /\ stored_by'[t] = {})
          /\ (pc[t] = "L113_set") =>
                (meta_cache'[cat[t]] = val[t] /\ val[t] \in Snapshots /\ nsync[t] = 1)
          /\ (pc[t] = "L114") => (fresh_cache'[cat[t]] /\ cat[t] \in stored_by[t])
          /\ (pc'[t] = "returned") =>
                /\ pc[t] = "L139" /\ cat[t] \in stored_by[t]
                /\ ret'[t] = meta_cache'[cat[t]] /\ ret'[t] \in Snapshots
      ]_vars

\* C2's case: a forced call on a category that already had a Snapshot has
\* returned the newly stored one
C2_Witness ==
    \E t \in Callers :
        /\ op[t] = "get" /\ pc[t] = "returned" /\ force[t] /\ meta_data[t] \in Snapshots
        /\ nsync[t] = 1 /\ ret[t] = meta_cache[cat[t]] /\ ret[t] # meta_data[t]
        /\ fresh_cache[cat[t]]

ReturnedFromFreshPath(t) ==
    /\ op[t] = "get" /\ pc[t] = "returned" /\ ~force[t] /\ meta_data[t] # None
    /\ thread[t] = 0 /\ floor[t] # None

\* C4 as stated: a call that finds a Snapshot stored and the flag present
\* returns the same Snapshot as the previous call.
C4_SameSnapshotAsPreviousCall ==
    \A t \in Callers : ReturnedFromFreshPath(t) => ret[t] = floor[t]

\* C4 amended: a call that finds a Snapshot stored and the flag present does
\* not invoke the Connector, starts no Thread, changes neither store nor the
\* tracked Threads, and returns the stored Snapshot: the one the latest call
\* returned, unless a refresh has stored since that call returned.
C4_FreshPathIsPure ==
    [][\A t \in Callers : (op[t] = "get" /\ Moves(t)) =>
          /\ (pc[t] = "L142" /\ fresh_cache[cat[t]]) =>
                (pc'[t] = "L152" /\ UNCHANGED shared)
          /\ (pc[t] = "L152") =>
                /\ pc'[t] = "returned"
                /\ nsync[t] = 0 /\ nlaunch[t] = 0 /\ thread[t] = 0
                /\ UNCHANGED shared
                /\ ret'[t] = meta_cache[cat[t]]
                /\ (lastRet[cat[t]] # None /\ ~storedSince[cat[t]])
                      => ret'[t] = lastRet[cat[t]]
      ]_vars

\* C4's case: Scenario B, a fresh-path call has returned the Snapshot the
\* call before it returned, no refresh having stored in between
C4_Witness ==
    \E t \in Callers :
        /\ ReturnedFromFreshPath(t) /\ nsync[t] = 0 /\ nlaunch[t] = 0
        /\ ret[t] = floor[t] /\ ~storedSince[cat[t]] /\ fresh_cache[cat[t]]

\* a refresh of category c has succeeded: some thread is past its store
SomeRefreshSucceeded(c) ==
    \/ lastWriter[c] # 0
    \/ \E x \in Threads : cat[x] = c /\ pc[x] \in {"L114", "L139", "done"}

\* C5: once a refresh of a category has succeeded, a Snapshot stays stored for
\* it, and every get_metadata call that returns normally returns a Snapshot,
\* never None, whatever calls, expiries, background refreshes and Connector
\* failures happen.
C5_NeverNoneOnceRefreshed ==
    /\ \A c \in ServiceCategory : SomeRefreshSucceeded(c) => meta_cache[c] \in Snapshots
    /\ \A t \in Callers : (op[t] = "get" /\ pc[t] = "returned") => ret[t] \in Snapshots

\* C5's case: a call has returned a Snapshot after the flag expired and a
\* background refresh of the category failed
C5_Witness ==
    \E t \in Callers, w \in Workers :
        /\ op[t] = "get" /\ pc[t] = "returned" /\ ret[t] \in Snapshots
        /\ pc[w] = "failed" /\ cat[w] = cat[t] /\ thread[t] # w
        /\ ~fresh_cache[cat[t]]

\* caller t has returned from the call of Scenario C: the one that follows a
\* stale-path call (which started Thread track[t].w) and wait_for_refreshes,
\* and that Thread's refresh succeeded
AfterScenarioC(t) ==
    /\ op[t] = "get" /\ pc[t] = "returned" /\ track[t].stage = 3
    /\ pc[track[t].w] = "done"

C7_WaitJoinsAll ==
    \A t \in Callers :
        (op[t] = "wait" /\ pc[t] = "returned") =>
            \A i \in 1..wait_len0[t] : pc[open_threads[i]] \in {"done", "failed"}

\* C7's case: wait_for_refreshes has returned after joining a Thread that
\* stored a Snapshot and one whose Connector raised
C7_Witness ==
    \E t \in Callers :
        /\ op[t] = "wait" /\ pc[t] = "returned" /\ wait_len0[t] = 2
        /\ pc[open_threads[1]] = "done" /\ pc[open_threads[2]] = "failed"

C9_FanOutReturnsDespiteRaise ==
    \A t \in Callers : ~(op[t] = "all" /\ pc[t] = "raised")

\* C9 amended: when a Connector raises during get_all_metadata (which it can
\* only on the blocking path), both stores are left as they were, so the other
\* categories' Snapshots are unaffected, but the exception propagates out of
\* get_all_metadata: the call ends there, and no dict is returned.
C9_RaisePropagatesStoresUntouched ==
    [][\A t \in Callers :
          (op[t] = "all" /\ pc[t] = "L112_pull" /\ Moves(t) /\ pc'[t] # "L112_assign") =>
             /\ pc'[t] = "raised"
             /\ meta_cache' = meta_cache /\ fresh_cache' = fresh_cache
             /\ cat[t] \notin DOMAIN all_result'[t]
      ]_vars

\* C9's case: get_all_metadata has raised on its second category while a
\* Snapshot of the first is stored (and was not returned)
C9_Witness ==
    \E t \in Callers :
        /\ op[t] = "all" /\ pc[t] = "raised" /\ all_idx[t] = 2
        /\ meta_cache[CategoryOrder[1]] \in Snapshots
        /\ DOMAIN all_result[t] = {CategoryOrder[1]}

\* C10 as stated: in every execution, a get_metadata call returns a Snapshot
\* pulled no earlier than the one the latest call before it returned.
C10_ReturnsNeverOlder ==
    \A t \in Callers :
        (op[t] = "get" /\ pc[t] = "returned" /\ floor[t] # None) => ret[t] >= floor[t]

\* C10 amended: the stored Snapshot is only ever the result of a successful
\* pull, and as long as no two refreshes of a category have overlapped, a
\* get_metadata call returns a Snapshot pulled no earlier than the one the
\* latest call before it returned.
C10_ReturnsNeverOlderWithoutOverlap ==
    /\ \A c \in ServiceCategory : meta_cache[c] \in {None} \cup 1..pulls[c]
    /\ \A t \in Callers :
          (op[t] = "get" /\ pc[t] = "returned" /\ floor[t] # None /\ ~overlapped[cat[t]])
              => ret[t] >= floor[t]

\* C10's case: without any overlap, a call has returned a Snapshot newer than
\* the one the call before it returned
C10_Witness ==
    \E t \in Callers :
        /\ op[t] = "get" /\ pc[t] = "returned" /\ floor[t] \in Snapshots
        /\ ~overlapped[cat[t]] /\ ret[t] > floor[t]

\* C11: every value get_metadata returns is the complete result of one
\* finished Connector pull, never a Snapshot that was read from the Connector
\* while another thread's refresh had reassigned its data and not yet enriched
\* it.
C11_NeverPartiallyWritten ==
    \A t \in Callers : (InGet(t) /\ pc[t] = "returned") => ~ret_partial[t]

\* every background refresh other than w failed or never existed
OnlyWorker(w) == \A u \in Workers \ {w} : pc[u] \in {"unborn", "failed"}

\* C12: when the Connector raises during a refresh, the stored Snapshot and the
\* freshness flag are afterwards what they were before the attempt: after a
\* stale-path call whose background refresh raised (and no other refresh ran),
\* the Snapshot is the one the call found and the flag is still absent; after a
\* blocking call that raised, the Snapshot is the one the call found.
C12_FailureLeavesStateUnchanged ==
    \A t \in Callers :
        /\ \A w \in Workers :
              (op[t] = "get" /\ pc[t] = "returned" /\ thread[t] = w /\ pc[w] = "failed"
                  /\ OnlyWorker(w))
              => (meta_cache[cat[t]] = meta_data[t] /\ ~fresh_cache[cat[t]])
        /\ (op[t] = "get" /\ pc[t] = "raised" /\ OnlyWorker(0))
              => meta_cache[cat[t]] = meta_data[t]

\* C13: after a refresh of a category fails, the next get_metadata call for the
\* category attempts the refresh again: on its own thread if no Snapshot is
\* stored, otherwise by starting a background refresh (here: the call that
\* follows a stale-path call and wait_for_refreshes, when the background
\* refresh of the stale-path call raised).
C13_RetryOnNextCall ==
    \A t \in Callers :
        /\ (op[t] = "get" /\ pc[t] = "returned" /\ meta_data[t] = None) => nsync[t] = 1
        /\ (op[t] = "get" /\ pc[t] = "returned" /\ track[t].stage = 3
               /\ pc[track[t].w] = "failed")
              => nlaunch[t] = 1

\* C14: when the Connector raises on a call that found no Snapshot or was
\* forced, the exception leaves get_metadata: the call ends by raising, stores
\* nothing, and returns no value at all, even when a Snapshot is stored that it
\* could have fallen back to.
C14_RaisePropagatesToCaller ==
    [][\A t \in Callers :
          /\ (op[t] = "get" /\ pc[t] = "L112_pull" /\ Moves(t) /\ pc'[t] # "L112_assign")
                => /\ pc'[t] = "raised" /\ ret'[t] = None
                   /\ force[t] \/ meta_data[t] = None
                   /\ meta_cache' = meta_cache /\ fresh_cache' = fresh_cache
          /\ (op[t] = "get" /\ pc[t] = "raised")
                => (ret[t] = None /\ (Moves(t) => pc'[t] \in {"L133", "L168"}))
      ]_vars

\* C14's case: a forced call has raised although a Snapshot is stored
C14_Witness ==
    \E t \in Callers :
        /\ op[t] = "get" /\ pc[t] = "raised" /\ force[t]
        /\ meta_data[t] \in Snapshots /\ meta_cache[cat[t]] = meta_data[t]
        /\ ret[t] = None /\ nsync[t] = 1

\* C20: the freshness flag of a category becomes present only by the last
\* statement of a refresh of that category that succeeded, executed by the
\* thread that ran the refresh.
C20_FlagSetOnlyAfterSuccessfulRefresh ==
    [][\A c \in ServiceCategory :
          (~fresh_cache[c] /\ fresh_cache'[c]) =>
              \E x \in Threads : cat[x] = c /\ pc[x] = "L114" /\ pc'[x] # "L114"
      ]_vars

\* the rows of out are the results of the rows of df, one per row and in
\* order: a bad row's is a placeholder, a good row's its real prediction
IsResultOf(out, df) ==
    /\ Len(out) = Len(df)
    /\ \A k \in 1..Len(df) :
          /\ out[k].id = df[k]
          /\ IF eval_df[df[k]] = "bad"
             THEN out[k].nan # {} /\ "prediction" \in out[k].nan
             ELSE out[k] = [id |-> df[k], columns |-> eval_columns \cup {"prediction"},
                            nan |-> {}]

\* predict has handed a chunk whose rows are all good or bad to
\* _endpoint_error_handling, and that call is over
BisectedChunk == feature_df # <<>> /\ ~Contains(feature_df, "fatal")

\* C15 as stated: for a batch in which any subset of rows is bad and the others
\* are good, _endpoint_error_handling returns one row per input row, in order,
\* placeholders for the bad rows and real predictions for the others.
C15_BisectionReturnsEveryRow ==
    BisectedChunk => (epc # "raised" /\ IsResultOf(partial_df, feature_df))

RECURSIVE GoodBatchFirst(_)
\* the bisection of df sends an all-good batch before it sends a single bad row
GoodBatchFirst(df) ==
    IF \A k \in DOMAIN df : eval_df[df[k]] = "good" THEN TRUE
    ELSE IF Len(df) = 1 THEN FALSE
    ELSE GoodBatchFirst(SubSeq(df, 1, Len(df) \div 2))

\* C15 amended: ... provided a known-good column shape is recorded by the time
\* the bisection reaches its first single bad row (recorded before the call, or
\* by an all-good sub-batch sent earlier in the bisection); otherwise the call
\* re-raises that row's error and returns nothing.
C15_BisectionReturnsEveryRowOnceShapeKnown ==
    BisectedChunk =>
        IF columns_before # {} \/ GoodBatchFirst(feature_df)
        THEN epc # "raised" /\ IsResultOf(partial_df, feature_df)
        ELSE epc = "raised"

\* C15's case: Scenario D, a batch of four rows whose third is bad, on an
\* endpoint with no recorded shape, came back with one placeholder
C15_Witness ==
    /\ BisectedChunk /\ Len(feature_df) = 4 /\ columns_before = {}
    /\ \A k \in 1..4 : (eval_df[feature_df[k]] = "bad") <=> (k = 3)
    /\ epc # "raised" /\ IsResultOf(partial_df, feature_df)
    /\ Len(remote_calls) = 5

\* C16: a remote call that fails with a ModelError is the last remote call of
\* the whole _endpoint_error_handling call, whatever its depth in the
\* bisection, and the call ends by raising.
C16_ModelErrorEndsTheCall ==
    \A k \in 1..Len(remote_calls) :
        Reply(remote_calls[k]) = "ModelError" =>
            (k = Len(remote_calls) /\ epc = "raised")

\* C16's case: a ModelError on a single row, two levels down in the bisection
C16_Witness ==
    /\ epc = "raised" /\ Len(remote_calls) >= 3
    /\ Len(remote_calls[Len(remote_calls)]) = 1
    /\ Reply(remote_calls[Len(remote_calls)]) = "ModelError"
    /\ Len(feature_df) >= 3

\* predict has handed a chunk of exactly one row, a bad one, over
SingleBadRow == Len(feature_df) = 1 /\ Reply(feature_df) = "ClientError"

\* C17 as stated: for a batch of one bad row, with a known-good shape recorded
\* the result is one placeholder row with exactly the columns of the last
\* known-good result, NaN except in the input's columns; with none recorded the
\* error is re-raised.
C17_PlaceholderHasKnownColumns ==
    SingleBadRow =>
        IF columns_before # {}
        THEN /\ epc # "raised"
             /\ partial_df = <<[id |-> feature_df[1], columns |-> columns_before,
                                nan |-> columns_before \ eval_columns]>>
        ELSE epc = "raised"

\* C17 amended: ... the result is one placeholder row with the columns of the
\* last known-good result and, in addition, every column of the input row that
\* is not among them; the input's columns keep the row's values and the other
\* columns are NaN.
C17_PlaceholderHasKnownAndInputColumns ==
    SingleBadRow =>
        IF columns_before # {}
        THEN /\ epc # "raised"
             /\ partial_df = <<[id |-> feature_df[1],
                                columns |-> columns_before \cup eval_columns,
                                nan |-> columns_before \ eval_columns]>>
             /\ endpoint_return_columns = columns_before
        ELSE epc = "raised" /\ endpoint_return_columns = {}

\* C17's case: a placeholder built from the shape an earlier predict call
\* recorded, for an input that has a column more
C17_Witness ==
    /\ SingleBadRow /\ columns_before # {} /\ epc # "raised"
    /\ ~(eval_columns \subseteq columns_before)
    /\ partial_df[1].columns # columns_before

\* C18: predict hands eval_df over as consecutive chunks of at most ChunkSize
\* rows, in order, and when it returns, combined_df has one row per row of
\* eval_df, in order.
C18_ChunksInOrderOneRowPerInput ==
    /\ \A k \in 1..Len(chunks) :
          /\ Len(chunks[k]) >= 1 /\ Len(chunks[k]) <= ChunkSize
          /\ k < Len(chunks) => Len(chunks[k]) = ChunkSize
    /\ Concat(chunks) = Rows(1, Len(Concat(chunks)))
    /\ epc = "returned" =>
          /\ Concat(chunks) = Rows(1, Len(eval_df))
          /\ Len(df_list) = Len(chunks)
          /\ Len(combined_df) = Len(eval_df)
          /\ \A k \in 1..Len(eval_df) : combined_df[k].id = k

\* C18's case: predict returned after two chunks, the second one shorter, with
\* a placeholder in each
C18_Witness ==
    /\ epc = "returned" /\ Len(chunks) = 2 /\ Len(chunks[2]) < ChunkSize
    /\ \A k \in 1..2 : \E r \in 1..Len(df_list[k]) : df_list[k][r].nan # {}

\* C19: predict on an input of one row, and on an input of no rows, the
\* endpoint accepting every row, ends by returning, with as many rows as the
\* input has.
C19_OneRowAndZeroRows ==
    (Len(eval_df) <= 1 /\ (\A k \in DOMAIN eval_df : eval_df[k] = "good")
        /\ epc \in {"returned", "raised"})
    => (epc = "returned" /\ Len(combined_df) = Len(eval_df))

\* C21: refreshes of one category are not mutually exclusive, and the stored
\* Snapshot is the one of the store step that executed last: whenever the
\* thread whose line 113 ran last for a category is still in (or back from)
\* that refresh, the store holds the value that thread stored.
C21_LastWriterWins ==
    \A c \in ServiceCategory :
        LET w == lastWriter[c]
        IN  (w # 0 /\ (w \in Workers \/ (c \in stored_by[w] /\ cat[w] = c)))
                => meta_cache[c] = val[w]

\* C21's case: a forced refresh on a caller's thread and a background refresh
\* of the same category are past their store steps at the same time, the
\* background one stored last, and it stored the older pull
C21_Witness ==
    \E t \in Callers, w \in Workers :
        /\ op[t] = "get" /\ force[t] /\ pc[t] = "L114" /\ pc[w] = "L114"
        /\ cat[t] = cat[w]
        /\ lastWriter[cat[t]] = w
        /\ val[w] < val[t]
        /\ meta_cache[cat[t]] = val[w]

\* the batches b of the log that failed with a data error and were split
SplitPoints == {k \in 1..Len(remote_calls) :
                   Len(remote_calls[k]) > 1 /\ Reply(remote_calls[k]) = "ClientError"}

\* every row of batch a is a row of batch b
Within(a, b) == \A i \in DOMAIN a : \E j \in DOMAIN b : a[i] = b[j]

\* C22: a batch of more than one row that failed with a data error is split at
\* floor(n/2); the call for its first half comes next, every call up to the
\* one for its second half is for rows of the first half, and the results are
\* concatenated in that order.  In particular four rows of which only the third
\* is bad are sent as [1-4], [1-2], [3-4], [3], [4] and come back as four rows
\* with a placeholder third.
C22_FirstHalfBeforeSecondHalf ==
    /\ \A k \in SplitPoints :
          LET b == remote_calls[k]
              h == Len(b) \div 2
              first == SubSeq(b, 1, h)
              second == SubSeq(b, h + 1, Len(b))
          IN  /\ k < Len(remote_calls)
              /\ remote_calls[k + 1] = first
              /\ \/ \E j \in (k + 2)..Len(remote_calls) :
                       /\ remote_calls[j] = second
                       /\ \A i \in (k + 1)..(j - 1) : Within(remote_calls[i], first)
                 \/ /\ epc = "raised"
                    /\ \A i \in (k + 1)..Len(remote_calls) : Within(remote_calls[i], first)
    /\ (feature_df # <<>> /\ epc # "raised") =>
          \A k \in 1..Len(partial_df) : partial_df[k].id = feature_df[k]
    /\ (/\ feature_df = <<1, 2, 3, 4>>
        /\ \A k \in 1..4 : (eval_df[k] = "bad") <=> (k = 3)
        /\ \A k \in 1..4 : (eval_df[k] = "good") <=> (k # 3))
       => /\ remote_calls = << <<1, 2, 3, 4>>, <<1, 2>>, <<3, 4>>, <<3>>, <<4>> >>
          /\ epc # "raised"
          /\ IsResultOf(partial_df, feature_df)

\* C22's case: Scenario D has run, on an object with no shape recorded before
C22_Witness ==
    /\ feature_df = <<1, 2, 3, 4>>
    /\ \A k \in 1..4 : eval_df[k] = (IF k = 3 THEN "bad" ELSE "good")
    /\ ~succeeded_before
    /\ Len(remote_calls) = 5 /\ Len(partial_df) = 4
    /\ partial_df[3].nan # {} /\ partial_df[4].nan = {}

\* C23: a call of _endpoint_error_handling on N >= 1 rows sends at most 2N-1
\* batches, each of them non-empty, and each after the first strictly smaller
\* than the batch it was given.
C23_AtMostTwoNMinusOneCalls ==
    feature_df # <<>> =>
        /\ Len(remote_calls) >= 1
        /\ Len(remote_calls) <= 2 * Len(feature_df) - 1
        /\ remote_calls[1] = feature_df
        /\ \A k \in 1..Len(remote_calls) : Len(remote_calls[k]) >= 1
        /\ \A k \in 2..Len(remote_calls) :
              /\ Len(remote_calls[k]) < Len(feature_df)
              /\ Within(remote_calls[k], feature_df)

\* C23's case: the worst case, every row of a full chunk is bad (the shape is
\* known), and the call took exactly 2N-1 remote calls
C23_Witness ==
    /\ Len(feature_df) = ChunkSize
    /\ \A k \in DOMAIN feature_df : eval_df[feature_df[k]] = "bad"
    /\ Len(remote_calls) = 2 * ChunkSize - 1
    /\ epc # "raised"

\* C30: endpoint_return_columns is unset exactly as long as no remote call on
\* the object has succeeded, and a single row's data error is re-raised only
\* if no remote call had succeeded before: not before this chunk (in an
\* earlier chunk or predict call) and not earlier in this chunk's bisection.
C30_ShapeKnownOnceAnyCallSucceeded ==
    /\ (endpoint_return_columns = {}) <=> ~succeeded
    /\ (columns_before = {}) <=> ~succeeded_before
    /\ succeeded_before => succeeded
    /\ \A k \in 1..Len(remote_calls) :
          (/\ Len(remote_calls[k]) = 1
           /\ Reply(remote_calls[k]) = "ClientError"
           /\ (succeeded_before \/ \E j \in 1..(k - 1) : Reply(remote_calls[j]) = "ok"))
          => ~(k = Len(remote_calls) /\ epc = "raised")

\* C30's case: a predict call of one bad row, on an object whose earlier
\* predict call succeeded, returned a placeholder
C30_Witness ==
    /\ succeeded_before /\ epc = "returned"
    /\ Len(eval_df) = 1 /\ eval_df[1] = "bad"
    /\ Len(combined_df) = 1 /\ combined_df[1].nan # {}

\* the background refreshes of category c that have been started and have not
\* ended
InFlight(c) == {w \in Workers : InRefresh(w) /\ cat[w] = c}

\* C25: with several threads calling get_metadata on one stale category, at
\* most one background refresh of that category is in flight at any time.
C25_AtMostOneBackgroundRefreshInFlight ==
    \A c \in ServiceCategory : Cardinality(InFlight(c)) <= 1

\* C27: the value a refresh reads from the Connector at line 113 (and then
\* stores) is the data its own Connector.refresh() pulled at line 112.
C27_StoresItsOwnPull ==
    [][\A x \in Threads :
          (pc[x] = "L113_read" /\ pc'[x] = "L113_set") => val'[x] = val[x]]_vars

\* C28: wait_for_refreshes never joins a Thread that has not been started
\* (which raises RuntimeError), whatever a concurrent get_metadata is doing.
C28_NeverJoinsUnstartedThread ==
    \A t \in Callers : ~(op[t] = "wait" /\ pc[t] = "raised")

\* C24: with one caller, when a get_metadata call takes the stale path (sets
\* the flag at line 144, then launches a Thread), no other call has taken it
\* for that category since the category's flag last expired: at most one
\* background refresh is launched per category and TTL window.
C24_OneLaunchPerWindow ==
    [][\A t \in Callers :
          (pc[t] = "L144" /\ pc'[t] = "L145") => ~launched[cat[t]]]_vars

\* C24's case: within the window of a launch, its Thread still inside
\* refresh_aws_data, a later call for the category returned without
\* launching and without refreshing
C24_Witness ==
    \E w \in Workers :
        /\ InRefresh(w) /\ cat[w] = cat[MainThread]
        /\ launched[cat[w]] /\ fresh_cache[cat[w]]
        /\ op[MainThread] = "get" /\ ~force[MainThread]
        /\ pc[MainThread] = "returned" /\ thread[MainThread] = 0
        /\ nlaunch[MainThread] = 0 /\ nsync[MainThread] = 0

\* C26: a get_metadata(category, force_fresh=True) that returns hands back a
\* Snapshot at least as recent as the one its own Connector call pulled.
C26_ForcedReturnsOwnPullOrNewer ==
    [][\A t \in Callers :
          (/\ pc[t] = "L139" /\ pc'[t] # "L139"
           /\ force[t] /\ own_pull[t] # None)
          => ret'[t] >= own_pull[t]]_vars

\* C29: a step that replaces the stored Snapshot of a category, sets its
\* freshness flag, invokes its Connector or changes the Connector's data is
\* a step of a thread working for that category.
C29_OtherCategoriesUntouched ==
    [][\A d \in ServiceCategory :
          (\/ meta_cache'[d] # meta_cache[d]
           \/ (fresh_cache'[d] /\ ~fresh_cache[d])
           \/ pulls'[d] # pulls[d]
           \/ conn_data'[d] # conn_data[d])
          => /\ \E x \in Threads : pc'[x] # pc[x]
             /\ \A x \in Threads : pc'[x] # pc[x] => cat[x] = d]_vars

\* C29's case: the second category was refreshed once and its flag has
\* expired; the first was then refreshed twice, and the second's Snapshot and
\* absent flag are as they were
C29_Witness ==
    /\ meta_cache[CategoryOrder[2]] = 1 /\ ~fresh_cache[CategoryOrder[2]]
    /\ pulls[CategoryOrder[2]] = 1
    /\ meta_cache[CategoryOrder[1]] = 2 /\ fresh_cache[CategoryOrder[1]]
    /\ pc[MainThread] = "returned" /\ cat[MainThread] = CategoryOrder[1]

====
